---- MODULE Spec2Model ----
(***************************************************************************)
(* The snake game engine of src/src/snake.c, src/src/screen.c and the game *)
(* loop of src/src/main.c: the heap of chain nodes with their prev/next    *)
(* links, the Snake and Screen objects, and the frame loop of main() cut   *)
(* into its steps.                                                         *)
(***************************************************************************)
EXTENDS Integers, Sequences, FiniteSets, TLC

\* ---------------------------------------------------------------- bounds
\* The playing field extents computed by newScreen() from the terminal size.
MapWidth == 1
MapHeight == 1
\* The number of Node cells malloc() can hand out.
MaxNodes == 5

\* ------------------------------------------------------------- constants
\* enum Direction of snake.h, in the order the spec gives it; changeDirection
\* and newSnake rely on WEST being the last enumerator.
NORTH == 0
EAST == 1
SOUTH == 2
WEST == 3

NULL == 0

Directions == {NORTH, EAST, SOUTH, WEST}
NodeIds == 1..MaxNodes
\* What getch() can return, as the cases of main()'s switch tell them apart.
Keys == {"NORTH", "EAST", "SOUTH", "WEST", "q", "other"}

VARIABLES
  heap,           \* the Node cells: allocated or not, pos, prev, next
  snake,          \* the Snake object: head, tail, direction, length
  grid,           \* screen->grid[y][x]
  orb,            \* screen->orb (written by spawnOrb before it is first read)
  quit,           \* main(): bool quit
  wallCollision,  \* main(): bool wallCollision
  collision,      \* main(): Point collision
  growing,        \* main(): bool growing (local of the loop body)
  oldTail,        \* main(): Node *oldTail (local of the loop body)
  key,            \* the operand of switch (getch())
  progress,       \* main(): float progress, as the quotient num / den
  highlight,      \* the point main() last drew in COLOR_RED, (-1, -1) if none
  pc              \* the position of main()

vars == <<heap, snake, grid, orb, quit, wallCollision, collision, growing,
          oldTail, key, progress, highlight, pc>>

\* ------------------------------------------------------------------ heap
\* A cell that is not allocated; its contents are indeterminate and are
\* never read through this record (see FreedRead).
FreeCell == [alloc |-> FALSE, pos |-> <<0, 0>>, prev |-> NULL, next |-> NULL]

\* A cell that stays allocated after the last pointer to it is gone (what
\* destroySnake leaves behind): nothing can read it any more, so only the fact
\* that it is allocated is kept.
LeakedCell == [alloc |-> TRUE, pos |-> <<0, 0>>, prev |-> NULL, next |-> NULL]

FreeIds(h) == {n \in NodeIds : ~h[n].alloc}

\* malloc(sizeof(Node)): some cell that is not allocated.
Malloc(h) == CHOOSE n \in FreeIds(h) : \A m \in FreeIds(h) : n <= m

newNode(h, n, pos, prev) ==
  [h EXCEPT ![n] = [alloc |-> TRUE, pos |-> pos, prev |-> prev, next |-> NULL]]

destroyNode(h, n) == IF n # NULL THEN [h EXCEPT ![n] = FreeCell] ELSE h

\* ---------------------------------------------------------------- screen
newGrid == [y \in 0..MapHeight |-> [x \in 0..MapWidth |-> 0]]

\* const struct timespec delayMin, delayMedium, delayMax, delayDiff (tv_nsec).
delayMin == 33333333
delayMedium == 50000000
delayMax == 83333333
delayDiff == delayMax - delayMin

Center == <<MapWidth \div 2, MapHeight \div 2>>

\* insideBoundaries with the upper bounds excluded.
insideBoundariesStrict(h, s) ==
  /\ h[s.head].pos[1] < MapWidth
  /\ h[s.head].pos[1] >= 0
  /\ h[s.head].pos[2] < MapHeight
  /\ h[s.head].pos[2] >= 0

insideBoundaries(h, s) ==
  /\ h[s.head].pos[1] <= MapWidth
  /\ h[s.head].pos[1] >= 0
  /\ h[s.head].pos[2] <= MapHeight
  /\ h[s.head].pos[2] >= 0

\* ----------------------------------------------------------------- snake
newSnake(n, d) == [head |-> n, tail |-> n, direction |-> d, length |-> 1]

\* destroySnake: frees from head along next until NULL.
RECURSIVE destroyFrom(_, _)
destroyFrom(h, current) ==
  IF current = NULL THEN h
  ELSE destroyFrom(destroyNode(h, current), h[current].next)

destroySnake(h, s) == destroyFrom(h, s.head)

\* The inner loop of selfCollision: it2 from it1->prev along prev.
RECURSIVE innerScan(_, _, _)
innerScan(h, it1, it2) ==
  IF it2 = NULL THEN FALSE
  ELSE IF h[it1].pos[1] = h[it2].pos[1] /\ h[it1].pos[2] = h[it2].pos[2]
       THEN TRUE
       ELSE innerScan(h, it1, h[it2].prev)

\* The outer loop of selfCollision: it1 from head along prev.  The result is
\* the return value and the point written through *collision (unchanged, c,
\* when there is no collision).
RECURSIVE outerScan(_, _, _)
outerScan(h, it1, c) ==
  IF it1 = NULL THEN [hit |-> FALSE, pos |-> c]
  ELSE IF innerScan(h, it1, h[it1].prev)
       THEN [hit |-> TRUE, pos |-> h[it1].pos]
       ELSE outerScan(h, h[it1].prev, c)

selfCollision(h, s, c) == outerScan(h, s.head, c)

\* The switch of advance() with the two vertical cases exchanged.
StepMirrored(p, d) ==
  CASE d = NORTH -> <<p[1], p[2] + 1>>
    [] d = EAST  -> <<p[1] + 1, p[2]>>
    [] d = SOUTH -> <<p[1], p[2] - 1>>
    [] d = WEST  -> <<p[1] - 1, p[2]>>

\* The switch of advance() with two cells to the EAST.
StepLeaps(p, d) ==
  CASE d = NORTH -> <<p[1], p[2] - 1>>
    [] d = EAST  -> <<p[1] + 2, p[2]>>
    [] d = SOUTH -> <<p[1], p[2] + 1>>
    [] d = WEST  -> <<p[1] - 1, p[2]>>

\* The switch of advance(): the head position moved one cell.
Step(p, d) ==
  CASE d = NORTH -> <<p[1], p[2] - 1>>
    [] d = EAST  -> <<p[1] + 1, p[2]>>
    [] d = SOUTH -> <<p[1], p[2] + 1>>
    [] d = WEST  -> <<p[1] - 1, p[2]>>

\* advance(): the heap and the snake after the call, and the returned node.
advance(h, s) ==
  LET n  == Malloc(h)
      h1 == newNode(h, n, Step(h[s.head].pos, s.direction), s.head)
      h2 == [h1 EXCEPT ![s.head].next = n]
      ot == s.tail
      nt == h2[ot].next
      h3 == [h2 EXCEPT ![nt].prev = NULL]
  IN  [heap |-> h3, snake |-> [s EXCEPT !.head = n, !.tail = nt], ret |-> ot]

\* changeDirection that also counts an accepted turn in length.
changeDirectionCountsTurn(s, d) ==
  IF d = s.direction \/ (s.length > 1 /\ d = (s.direction + 2) % (WEST + 1))
  THEN s
  ELSE [s EXCEPT !.direction = d, !.length = s.length + 1]

\* changeDirection without the test for a reversal.
changeDirectionAnyTurn(s, d) ==
  IF d = s.direction THEN s ELSE [s EXCEPT !.direction = d]

changeDirection(s, d) ==
  IF d = s.direction \/ (s.length > 1 /\ d = (s.direction + 2) % (WEST + 1))
  THEN s
  ELSE [s EXCEPT !.direction = d]

\* grow() without ++self->length.
growKeepsLength(h, s, ot) ==
  [heap  |-> [h EXCEPT ![ot].next = s.tail],
   snake |-> [s EXCEPT !.tail = ot]]

\* grow(): the heap and the snake after the call.
grow(h, s, ot) ==
  [heap  |-> [h EXCEPT ![ot].next = s.tail],
   snake |-> [s EXCEPT !.tail = ot, !.length = s.length + 1]]

\* ------------------------------------------------------------------ main
KeyDirection(k) ==
  CASE k = "NORTH" -> NORTH
    [] k = "EAST"  -> EAST
    [] k = "SOUTH" -> SOUTH
    [] k = "WEST"  -> WEST

Init ==
  /\ heap = newNode([n \in NodeIds |-> FreeCell], 1, Center, NULL)
  /\ \E d \in Directions : snake = newSnake(1, d)
  /\ grid = newGrid
  /\ orb = <<0, 0>>
  /\ quit = FALSE
  /\ wallCollision = FALSE
  /\ collision = <<-1, -1>>
  /\ growing = FALSE
  /\ oldTail = NULL
  /\ key = "other"
  /\ progress = [num |-> 0, den |-> 1]
  /\ highlight = <<-1, -1>>
  /\ pc = "welcome"

\* bool quit = dialog(...); drawWalls(screen);
Welcome ==
  /\ pc = "welcome"
  /\ \E q \in BOOLEAN : quit' = q
  /\ pc' = "spawn0"
  /\ UNCHANGED <<heap, snake, grid, orb, wallCollision, collision, growing,
                 oldTail, key>>
  /\ UNCHANGED <<progress, highlight>>

\* Where main() continues after each of its three calls of spawnOrb.
AfterSpawn(p) ==
  CASE p = "spawn0"     -> "loop"
    [] p = "spawnEat"   -> "progress"
    [] p = "spawnReset" -> "resetSnake"

\* The do-while of spawnOrb without its test: the first sample is kept.
SpawnOrbAnyCell ==
  /\ pc \in {"spawn0", "spawnEat", "spawnReset"}
  /\ \E x \in 0..MapWidth, y \in 0..MapHeight : orb' = <<x, y>>
  /\ pc' = AfterSpawn(pc)
  /\ UNCHANGED <<heap, snake, grid, quit, wallCollision, collision, growing,
                 oldTail, key, progress, highlight>>

\* One iteration of the do-while of spawnOrb.
SpawnOrb ==
  /\ pc \in {"spawn0", "spawnEat", "spawnReset"}
  /\ \E x \in 0..MapWidth, y \in 0..MapHeight :
       /\ orb' = <<x, y>>
       /\ pc' = IF grid[y][x] = 1 THEN pc ELSE AfterSpawn(pc)
  /\ UNCHANGED <<heap, snake, grid, quit, wallCollision, collision, growing,
                 oldTail, key>>
  /\ UNCHANGED <<progress, highlight>>

\* while (!quit) { switch (getch()) ...
GetCh ==
  /\ pc = "loop"
  /\ ~quit
  /\ \E k \in Keys : key' = k
  /\ pc' = "key"
  /\ UNCHANGED <<heap, snake, grid, orb, quit, wallCollision, collision,
                 growing, oldTail>>
  /\ UNCHANGED <<progress, highlight>>

\* The cases of the switch.
HandleKey ==
  /\ pc = "key"
  /\ snake' = IF key \in {"NORTH", "EAST", "SOUTH", "WEST"}
              THEN changeDirection(snake, KeyDirection(key))
              ELSE snake
  /\ quit' = IF key = "q" THEN TRUE ELSE quit
  /\ pc' = "advance"
  /\ UNCHANGED <<heap, grid, orb, wallCollision, collision, growing, oldTail,
                 key>>
  /\ UNCHANGED <<progress, highlight>>

\* bool growing = false; Node *oldTail = advance(snake);  The value getch()
\* returned is dead once the switch is left.
Advance ==
  /\ pc = "advance"
  /\ FreeIds(heap) # {}
  /\ LET r == advance(heap, snake)
     IN  /\ heap' = r.heap
         /\ snake' = r.snake
         /\ oldTail' = r.ret
  /\ growing' = FALSE
  /\ key' = "other"
  /\ pc' = "eat"
  /\ UNCHANGED <<grid, orb, quit, wallCollision, collision>>
  /\ UNCHANGED <<progress, highlight>>

\* The orb test of main() comparing the x coordinates only.
EatSameColumn ==
  /\ pc = "eat"
  /\ IF heap[snake.head].pos[1] = orb[1]
     THEN LET r == grow(heap, snake, oldTail)
          IN  /\ growing' = TRUE
              /\ heap' = r.heap
              /\ snake' = r.snake
              /\ grid' = [grid EXCEPT
                            ![r.heap[oldTail].pos[2]][r.heap[oldTail].pos[1]] = 1]
              /\ pc' = "spawnEat"
     ELSE /\ heap' = destroyNode(heap, oldTail)
          /\ pc' = "render"
          /\ UNCHANGED <<snake, grid, growing>>
  /\ UNCHANGED <<orb, quit, wallCollision, collision, oldTail, key, progress,
                 highlight>>

\* The orb test of main(): grow and mark the cell, or destroyNode(oldTail).
Eat ==
  /\ pc = "eat"
  /\ IF heap[snake.head].pos[1] = orb[1] /\ heap[snake.head].pos[2] = orb[2]
     THEN LET r == grow(heap, snake, oldTail)
          IN  /\ growing' = TRUE
              /\ heap' = r.heap
              /\ snake' = r.snake
              /\ grid' = [grid EXCEPT
                            ![r.heap[oldTail].pos[2]][r.heap[oldTail].pos[1]] = 1]
              /\ pc' = "spawnEat"
     ELSE /\ heap' = destroyNode(heap, oldTail)
          /\ pc' = "render"
          /\ UNCHANGED <<snake, grid, growing>>
  /\ UNCHANGED <<orb, quit, wallCollision, collision, oldTail, key>>
  /\ UNCHANGED <<progress, highlight>>

\* progress = (float)snake->length / (screen->mapWidth * screen->mapHeight);
\* the statement after spawnOrb in the growth branch.  The quotient is kept as
\* numerator and denominator.
UpdateProgress ==
  /\ pc = "progress"
  /\ progress' = [num |-> snake.length, den |-> MapWidth * MapHeight]
  /\ pc' = "render"
  /\ UNCHANGED <<heap, snake, grid, orb, quit, wallCollision, collision,
                 growing, oldTail, key, highlight>>

InGrid(p) == p[1] \in 0..MapWidth /\ p[2] \in 0..MapHeight

\* What reading n->pos can yield: the stored point while the node is
\* allocated, any point once it has been freed.
FreedRead(h, n) ==
  IF h[n].alloc THEN {h[n].pos}
  ELSE (-1..(MapWidth + 1)) \X (-1..(MapHeight + 1))

\* draw(): clear the old tail's cell unless growing, then mark the head's
\* cell; every grid and continuation the call can produce.  An index outside
\* the grid is a stray write: the program crashes or goes on with the grid as
\* it was.
draw(h, s, g, gr, ot) ==
  LET hp == h[s.head].pos
      marked == [g EXCEPT ![hp[2]][hp[1]] = 1]
  IN  IF gr
      THEN {[grid |-> marked, pc |-> "collide"]}
      ELSE UNION {IF InGrid(p)
                  THEN {[grid |-> [[g EXCEPT ![p[2]][p[1]] = 0]
                                     EXCEPT ![hp[2]][hp[1]] = 1],
                         pc |-> "collide"]}
                  ELSE {[grid |-> marked, pc |-> "collide"],
                        [grid |-> g, pc |-> "crashed"]} :
                  p \in FreedRead(h, ot)}

\* if (!(wallCollision = !insideBoundaries(screen, snake))) draw(...);
DrawInside ==
  /\ pc = "render"
  /\ insideBoundaries(heap, snake)
  /\ wallCollision' = FALSE
  /\ \E o \in draw(heap, snake, grid, growing, oldTail) :
       /\ grid' = o.grid
       /\ pc' = o.pc
  /\ UNCHANGED <<heap, snake, orb, quit, collision, growing, oldTail, key>>
  /\ UNCHANGED <<progress, highlight>>

\* The else branch: drawPoint(screen, snake->length > 1 ?
\* snake->head->prev->pos : oldTail->pos, COLOR_RED).  Nothing of the engine's
\* state changes; a NULL head->prev ends the program.
DrawWall ==
  /\ pc = "render"
  /\ ~insideBoundaries(heap, snake)
  /\ wallCollision' = TRUE
  /\ IF snake.length > 1
     THEN IF heap[snake.head].prev = NULL
          THEN /\ highlight' = highlight
               /\ pc' = "crashed"
          ELSE /\ highlight' = heap[heap[snake.head].prev].pos
               /\ pc' = "collide"
     ELSE /\ \E p \in FreedRead(heap, oldTail) : highlight' = p
          /\ pc' = "collide"
  /\ UNCHANGED <<heap, snake, grid, orb, quit, collision, growing, oldTail,
                 key, progress>>

\* if ((wallCollision || selfCollision(snake, &collision)) &&
\*     !(quit = dialog(...))) { destroyScreen; newScreen; drawWalls; ...
Collide ==
  /\ pc = "collide"
  /\ LET sc == IF wallCollision THEN [hit |-> FALSE, pos |-> collision]
               ELSE selfCollision(heap, snake, collision)
     IN  /\ collision' = sc.pos
         /\ IF wallCollision \/ sc.hit
            THEN \E q \in BOOLEAN :
                   /\ quit' = q
                   /\ IF ~q
                      THEN /\ grid' = newGrid
                           /\ highlight' = <<-1, -1>>
                           /\ pc' = "spawnReset"
                      ELSE /\ grid' = grid
                           /\ highlight' = highlight
                           /\ pc' = "sleep"
            ELSE /\ pc' = "sleep"
                 /\ UNCHANGED <<quit, grid, highlight>>
  /\ UNCHANGED <<heap, snake, orb, wallCollision, growing, oldTail, key,
                 progress>>

\* The reset without progress = 0.0.
ResetSnakeKeepsProgress ==
  /\ pc = "resetSnake"
  /\ LET h1 == destroySnake(heap, snake)
         h2 == [m \in NodeIds |-> IF h1[m].alloc THEN LeakedCell ELSE h1[m]]
         n  == Malloc(h2)
     IN  /\ heap' = newNode(h2, n, Center, NULL)
         /\ \E d \in Directions : snake' = newSnake(n, d)
  /\ collision' = <<-1, -1>>
  /\ pc' = "sleep"
  /\ UNCHANGED <<grid, orb, quit, wallCollision, growing, oldTail, key,
                 highlight, progress>>

\* destroySnake(snake); snake = newSnake(...); collision = (Point){-1, -1};
\* progress = 0.0;
ResetSnake ==
  /\ pc = "resetSnake"
  /\ LET h1 == destroySnake(heap, snake)
         h2 == [m \in NodeIds |-> IF h1[m].alloc THEN LeakedCell ELSE h1[m]]
         n  == Malloc(h2)
     IN  /\ heap' = newNode(h2, n, Center, NULL)
         /\ \E d \in Directions : snake' = newSnake(n, d)
  /\ collision' = <<-1, -1>>
  /\ progress' = [num |-> 0, den |-> 1]
  /\ pc' = "sleep"
  /\ UNCHANGED <<grid, orb, quit, wallCollision, growing, oldTail, key,
                 highlight>>

\* The switch on difficulty at the end of the loop body: the tv_nsec handed to
\* thrd_sleep.  The (unsigned) conversion truncates the product.
FrameDelay(difficulty, p) ==
  CASE difficulty = "INCREMENTAL" -> delayMax - ((delayDiff * p.num) \div p.den)
    [] difficulty = "EASY"        -> delayMax
    [] difficulty = "MEDIUM"      -> delayMedium
    [] difficulty = "HARD"        -> delayMin

\* The delay at the end of the loop body; the body's locals end here.
Sleep ==
  /\ pc = "sleep"
  /\ growing' = FALSE
  /\ oldTail' = NULL
  /\ pc' = "loop"
  /\ UNCHANGED <<heap, snake, grid, orb, quit, wallCollision, collision, key>>
  /\ UNCHANGED <<progress, highlight>>

\* The loop ends: destroySnake(snake); destroyScreen(screen);
Terminate ==
  /\ pc = "loop"
  /\ quit
  /\ heap' = destroySnake(heap, snake)
  /\ pc' = "done"
  /\ UNCHANGED <<snake, grid, orb, quit, wallCollision, collision, growing,
                 oldTail, key>>
  /\ UNCHANGED <<progress, highlight>>

Next ==
  \/ Welcome
  \/ SpawnOrb
  \/ GetCh
  \/ HandleKey
  \/ Advance
  \/ Eat
  \/ UpdateProgress
  \/ DrawInside
  \/ DrawWall
  \/ Collide
  \/ ResetSnake
  \/ Sleep
  \/ Terminate

Spec == Init /\ [][Next]_vars

\* ------------------------------------------------- the snake's operations
\* The loop body of main() with the orb test and the field's contents left
\* open: getch and changeDirection, advance, then either grow(oldTail) or
\* destroyNode(oldTail), then insideBoundaries.  A round ends at the first
\* wall collision, as in main().  These are the snakes any orb placement can
\* produce.
UnitInit ==
  /\ heap = newNode([n \in NodeIds |-> FreeCell], 1, Center, NULL)
  /\ \E d \in Directions : snake = newSnake(1, d)
  /\ grid = newGrid
  /\ orb = <<0, 0>>
  /\ quit = FALSE
  /\ wallCollision = FALSE
  /\ collision = <<-1, -1>>
  /\ growing = FALSE
  /\ oldTail = NULL
  /\ key = "other"
  /\ progress = [num |-> 0, den |-> 1]
  /\ highlight = <<-1, -1>>
  /\ pc = "loop"

\* Either branch of the orb test.
UnitEat ==
  /\ pc = "eat"
  /\ \/ LET r == grow(heap, snake, oldTail)
        IN  /\ growing' = TRUE
            /\ heap' = r.heap
            /\ snake' = r.snake
     \/ /\ heap' = destroyNode(heap, oldTail)
        /\ UNCHANGED <<snake, growing>>
  /\ pc' = "render"
  /\ UNCHANGED <<grid, orb, quit, wallCollision, collision, oldTail, key>>
  /\ UNCHANGED <<progress, highlight>>

\* wallCollision = !insideBoundaries(screen, snake), and the end of the body.
UnitBoundary ==
  /\ pc = "render"
  /\ wallCollision' = ~insideBoundaries(heap, snake)
  /\ growing' = FALSE
  /\ oldTail' = NULL
  /\ pc' = IF insideBoundaries(heap, snake) THEN "loop" ELSE "done"
  /\ UNCHANGED <<heap, snake, grid, orb, quit, collision, key>>
  /\ UNCHANGED <<progress, highlight>>

UnitNext ==
  \/ GetCh
  \/ HandleKey
  \/ Advance
  \/ UnitEat
  \/ UnitBoundary
  \/ Terminate

UnitSpec == UnitInit /\ [][UnitNext]_vars

\* ------------------------------------------------------- the orb placement
\* spawnOrb alone, called from any of its three call sites on any grid and
\* with any orb left over from before.
FieldInit ==
  /\ heap = newNode([n \in NodeIds |-> FreeCell], 1, Center, NULL)
  /\ \E d \in Directions : snake = newSnake(1, d)
  /\ grid \in [0..MapHeight -> [0..MapWidth -> {0, 1}]]
  /\ orb \in (0..MapWidth) \X (0..MapHeight)
  /\ quit = FALSE
  /\ wallCollision = FALSE
  /\ collision = <<-1, -1>>
  /\ growing = FALSE
  /\ oldTail = NULL
  /\ key = "other"
  /\ progress = [num |-> 0, den |-> 1]
  /\ highlight = <<-1, -1>>
  /\ pc \in {"spawn0", "spawnEat", "spawnReset"}

FieldNext == SpawnOrb

FieldSpec == FieldInit /\ [][FieldNext]_vars

\* ---------------------------------------------------------------- claims
\* The live segments: the nodes of the chain from tail to head along next.
RECURSIVE NextWalk(_, _)
NextWalk(h, n) == IF n = NULL THEN <<>> ELSE <<n>> \o NextWalk(h, h[n].next)

\* The nodes visited from n along prev until NULL.
RECURSIVE PrevWalk(_, _)
PrevWalk(h, n) == IF n = NULL THEN <<>> ELSE <<n>> \o PrevWalk(h, h[n].prev)

Live == NextWalk(heap, snake.tail)
LiveSet == {Live[i] : i \in 1..Len(Live)}
FromHead == PrevWalk(heap, snake.head)

InField(p) == 0 <= p[1] /\ p[1] <= MapWidth /\ 0 <= p[2] /\ p[2] <= MapHeight

\* C1: right after grow(oldTail) has re-attached the tail, if the tail's
\* position is the position of another live segment, selfCollision returns
\* true and reports that position.
C1_GrowOverlapDetected ==
  (pc = "spawnEat" /\ \E n \in LiveSet \ {snake.tail} :
                         heap[n].pos = heap[snake.tail].pos)
    => /\ selfCollision(heap, snake, collision).hit
       /\ selfCollision(heap, snake, collision).pos = heap[snake.tail].pos

\* C2: after every advance() and after every grow(), walking from head along
\* prev until NULL visits length segments and ends at tail.
C2_PrevWalkIsLength ==
  pc \in {"eat", "spawnEat"}
    => /\ Len(FromHead) = snake.length
       /\ FromHead[Len(FromHead)] = snake.tail

\* C3: at every frame boundary of a running round (the orb has been placed),
\* the orb is on no cell a live segment is on.
C3_OrbOffSnake ==
  pc = "loop" => \A n \in LiveSet : heap[n].pos # orb

\* C4: at every frame boundary, a cell of the field is set in the grid if and
\* only if a live segment is on it.
C4_GridMirrorsSnake ==
  pc = "loop"
    => \A x \in 0..MapWidth, y \in 0..MapHeight :
         (grid[y][x] = 1) <=> (\E n \in LiveSet : heap[n].pos = <<x, y>>)

\* C5: once a quit command has been read, the frame's advance, growth,
\* collision check and dialog are not performed.
C5_QuitSkipsFrame ==
  quit => pc \notin {"advance", "eat", "spawnEat", "render", "collide"}

GridFull == \A x \in 0..MapWidth, y \in 0..MapHeight : grid[y][x] = 1

\* Every cell of the field has a live segment on it.
AllCellsOccupied ==
  \A x \in 0..MapWidth, y \in 0..MapHeight :
    \E n \in LiveSet : heap[n].pos = <<x, y>>

\* C6: with the snake on every cell of the field, the sampling loop of the
\* orb placement is not run on a grid without a free cell: the case is
\* detected and the placement ends.
C6_SamplingHasFreeCell ==
  (pc \in {"spawn0", "spawnEat", "spawnReset"} /\ AllCellsOccupied)
    => ~GridFull

\* The heading opposite to d, as the compass has it.
Opposite(d) ==
  CASE d = NORTH -> SOUTH
    [] d = SOUTH -> NORTH
    [] d = EAST  -> WEST
    [] d = WEST  -> EAST

\* The cell next to p in heading d, as the spec states it.
Shift(p, d) ==
  <<p[1] + (IF d = EAST THEN 1 ELSE IF d = WEST THEN -1 ELSE 0),
    p[2] + (IF d = SOUTH THEN 1 ELSE IF d = NORTH THEN -1 ELSE 0)>>

\* C7: advance() returns a segment at the pre-call tail position, puts the new
\* head one cell from the pre-call head in the current direction, leaves
\* length unchanged and leaves the returned segment unreachable from the
\* chain (from head along prev and from tail along next).
C7_Advance ==
  [][pc = "advance" =>
       /\ heap'[oldTail'].pos = heap[snake.tail].pos
       /\ heap'[snake'.head].pos = Shift(heap[snake.head].pos, snake.direction)
       /\ snake'.length = snake.length
       /\ snake'.direction = snake.direction
       /\ \A i \in 1..Len(PrevWalk(heap', snake'.head)) :
            PrevWalk(heap', snake'.head)[i] # oldTail'
       /\ \A i \in 1..Len(NextWalk(heap', snake'.tail)) :
            NextWalk(heap', snake'.tail)[i] # oldTail']_vars

C7_Witness ==
  /\ pc = "eat"
  /\ snake.length >= 3
  /\ heap[oldTail].alloc
  /\ heap[snake.head].pos # heap[oldTail].pos

\* C8: changeDirection(d) never leaves the heading opposite to the pre-call
\* heading when length > 1 (asked for the opposite, the heading stays), and
\* with length 1 the heading after the call is d.
C8_ChangeDirection ==
  [][(pc = "key" /\ key \in {"NORTH", "EAST", "SOUTH", "WEST"}) =>
       /\ snake.length > 1 => snake'.direction # Opposite(snake.direction)
       /\ (snake.length > 1 /\ KeyDirection(key) = Opposite(snake.direction))
            => snake'.direction = snake.direction
       /\ snake.length = 1 => snake'.direction = KeyDirection(key)]_vars

\* A reversal asked of a snake longer than 1 has just been handled.
C8_Witness ==
  /\ pc = "advance"
  /\ snake.length > 1
  /\ key = "EAST"
  /\ snake.direction = WEST

PairwiseDistinct ==
  \A i, j \in 1..Len(Live) : i # j => heap[Live[i]].pos # heap[Live[j]].pos

\* The positions from head to tail.
HeadToTail == [i \in 1..Len(Live) |-> heap[Live[Len(Live) + 1 - i]].pos]

\* C9: selfCollision returns none if and only if the live segments' positions
\* are pairwise distinct; otherwise it returns the position of the segment
\* closest to the head that coincides with a segment closer to the tail.
C9_SelfCollision ==
  pc \notin {"done"}
    => LET r == selfCollision(heap, snake, collision)
       IN  /\ r.hit <=> ~PairwiseDistinct
           /\ r.hit =>
                \E i \in 1..Len(Live) :
                  /\ r.pos = HeadToTail[i]
                  /\ \E j \in (i + 1)..Len(Live) : HeadToTail[j] = HeadToTail[i]
                  /\ \A k \in 1..(i - 1) :
                       \A j \in (k + 1)..Len(Live) : HeadToTail[j] # HeadToTail[k]

\* C10: insideBoundaries is true exactly when the head has 0 <= x <= width and
\* 0 <= y <= height, both ends included; one past either bound it is false.
C10_InsideBoundaries ==
  [][pc = "render" =>
       LET p == heap[snake.head].pos
       IN  /\ wallCollision' = ~(p[1] \in 0..MapWidth /\ p[2] \in 0..MapHeight)
           /\ (p[1] = -1 \/ p[1] = MapWidth + 1 \/ p[2] = -1
                 \/ p[2] = MapHeight + 1) => wallCollision']_vars

\* The head stood on the last column and was found inside.
C10_Witness ==
  /\ pc = "key"
  /\ ~wallCollision
  /\ heap[snake.head].pos[1] = MapWidth
  /\ heap[snake.head].pos[2] = MapHeight
  /\ snake.length >= 2

\* The cells of the field whose grid entry is not set.
UnsetCells ==
  {c \in (0..MapWidth) \X (0..MapHeight) : grid[c[2]][c[1]] # 1}

\* C11: whenever spawnOrb returns, the orb lies in [0, width] x [0, height] on
\* a cell whose grid entry was not set when spawnOrb was called; when exactly
\* one cell was unset, the orb is on that cell.
C11_SpawnOrb ==
  [][(pc \in {"spawn0", "spawnEat", "spawnReset"}
        /\ pc' \notin {"spawn0", "spawnEat", "spawnReset"})
       => /\ InField(orb')
          /\ orb' \in UnsetCells
          /\ \A c \in UnsetCells : UnsetCells = {c} => orb' = c]_vars

\* spawnOrb has returned on a grid with exactly one unset cell.
C11_Witness ==
  /\ pc \in {"loop", "progress", "resetSnake"}
  /\ Cardinality(UnsetCells) = 1
  /\ orb \in UnsetCells

\* C12: under INCREMENTAL, in every state of a round progress lies in [0, 1],
\* so the frame delay delayMax - delayDiff * progress is never below the HARD
\* delay (delayMin) and never above the EASY delay (delayMax).
C12_IncrementalDelayInRange ==
  pc = "sleep"
    => /\ 0 <= progress.num /\ progress.num <= progress.den
       /\ delayMin <= FrameDelay("INCREMENTAL", progress)
       /\ FrameDelay("INCREMENTAL", progress) <= delayMax

\* The state of a round that has just begun.
FreshRound ==
  /\ snake.length = 1
  /\ snake.head = snake.tail
  /\ heap[snake.head].alloc
  /\ heap[snake.head].pos = <<MapWidth \div 2, MapHeight \div 2>>
  /\ heap[snake.head].prev = NULL /\ heap[snake.head].next = NULL
  /\ progress.num = 0
  /\ collision = <<-1, -1>>
  /\ \A x \in 0..MapWidth, y \in 0..MapHeight : grid[y][x] = 0

C14_DestroySnakeReleasesAll ==
  [][((pc = "resetSnake" /\ pc' = "sleep") \/ (pc = "loop" /\ pc' = "done"))
       => \A n \in LiveSet :
            ~destroySnake(heap, snake)[n].alloc]_vars

\* C15: changeDirection changes nothing but the heading: the length, the head
\* and the tail, every segment's position and links, the grid and the orb are
\* as they were before the call.
C15_ChangeDirectionFrame ==
  [][(pc = "key" /\ key \in {"NORTH", "EAST", "SOUTH", "WEST"})
       => /\ snake'.length = snake.length
          /\ snake'.head = snake.head
          /\ snake'.tail = snake.tail
          /\ heap' = heap
          /\ grid' = grid
          /\ orb' = orb]_vars

\* A turn has just been accepted by a snake of more than one segment.
C15_Witness ==
  /\ pc = "advance"
  /\ key = "NORTH"
  /\ snake.direction = NORTH
  /\ snake.length > 1
  /\ heap[snake.head].prev # NULL
  /\ heap[heap[snake.head].prev].pos[2] = heap[snake.head].pos[2]

\* C16: in every state of a round length >= 1, and head and tail are the same
\* segment if and only if length = 1, after every advance and every grow.
C16_LengthAndEnds ==
  /\ snake.length >= 1
  /\ (snake.head = snake.tail) <=> (snake.length = 1)

\* grow has just re-attached a tail to a snake of at least two segments.
C16_Witness ==
  /\ pc = "render"
  /\ growing
  /\ snake.length >= 3
  /\ snake.head # snake.tail

Abs(i) == IF i < 0 THEN -i ELSE i

Manhattan(p, q) == Abs(p[1] - q[1]) + Abs(p[2] - q[2])

C17_GrowthOnCapture ==
  [][/\ pc = "eat"
          => IF heap[snake.head].pos = orb
             THEN snake'.length = snake.length + 1 /\ pc' = "spawnEat"
             ELSE snake'.length = snake.length /\ pc' # "spawnEat"
                    /\ orb' = orb
     /\ pc \notin {"eat", "resetSnake"} => snake'.length = snake.length
     /\ pc \notin {"spawn0", "spawnEat", "spawnReset"} => orb' = orb
     /\ (pc' = "spawnEat" /\ pc # "spawnEat") => pc = "eat"
     /\ pc = "spawnEat" => pc' \in {"spawnEat", "progress"}
     /\ pc = "progress" => pc' = "render"]_vars

\* The placement started by a snake's second capture has returned.
C17_Witness ==
  /\ pc = "progress"
  /\ growing
  /\ snake.length = 3
  /\ InField(orb)

\* The rest of the frame reads oldTail->pos: draw to clear the old tail's cell
\* when the snake has not grown, the highlight when the head is outside and
\* the snake has one segment.
ReadsOldTail ==
  IF insideBoundaries(heap, snake) THEN ~growing ELSE snake.length <= 1

\* C18: the segment advance returned is consumed exactly once, re-attached by
\* grow or released by destroyNode, and once released the loop does not read
\* it again, neither to clear the old tail's cell nor for the highlight.
C18_ReleasedTailNotRead ==
  pc = "render"
    => /\ growing => (snake.tail = oldTail /\ heap[oldTail].alloc)
       /\ ~growing => (~heap[oldTail].alloc /\ oldTail \notin LiveSet)
       /\ ReadsOldTail => heap[oldTail].alloc

\* C19: in a frame that ends in a wall collision the highlighted point is the
\* position of the segment behind the head when length > 1, which exists, or
\* of the old tail when length is 1; either way it is the head position before
\* the advance and inside the boundaries; the frame is not a growth frame.
C19_WallImpactPoint ==
  (pc = "collide" /\ wallCollision)
    => /\ ~growing
       /\ snake.length > 1
            => /\ heap[snake.head].prev # NULL
               /\ highlight = heap[heap[snake.head].prev].pos
       /\ Shift(highlight, snake.direction) = heap[snake.head].pos
       /\ InField(highlight)

\* The indices at which the step about to be taken reads or writes the grid:
\* the old tail's position at the mark of a capture (main.c), the head's
\* position and, unless growing, the old tail's position in draw, the samples
\* of spawnOrb.
GridIndices ==
  CASE pc = "eat" /\ heap[snake.head].pos = orb
         -> {heap[oldTail].pos}
    [] pc = "render" /\ insideBoundaries(heap, snake)
         -> {heap[snake.head].pos}
              \cup (IF growing THEN {} ELSE FreedRead(heap, oldTail))
    [] pc \in {"spawn0", "spawnEat", "spawnReset"}
         -> (0..MapWidth) \X (0..MapHeight)
    [] OTHER -> {}

\* C21: every read or write of the grid by the loop, draw and spawnOrb uses
\* indices with 0 <= y <= height and 0 <= x <= width, in every frame of every
\* round, the frame in which the head leaves the field included.
C21_GridIndicesInRange ==
  \A p \in GridIndices : InField(p)

\* The head stands on the cell the detached tail has just left, without a
\* capture.
FollowsTail ==
  /\ pc = "eat"
  /\ snake.length > 1
  /\ heap[snake.head].pos = heap[oldTail].pos
  /\ heap[snake.head].pos # orb

\* C22: when an advance without growth moves the head onto the cell the tail
\* has just left, selfCollision reports no collision, the head is inside so
\* the round goes on, and draw leaves that cell's grid entry set: the old
\* tail's cell is cleared before the head's cell is marked.
C22_FollowOwnTail ==
  FollowsTail
    => LET h  == destroyNode(heap, oldTail)
           hp == heap[snake.head].pos
       IN  /\ ~selfCollision(h, snake, collision).hit
           /\ insideBoundaries(h, snake)
           /\ \A o \in draw(h, snake, grid, FALSE, oldTail) :
                /\ o.pc = "collide"
                /\ o.grid[hp[2]][hp[1]] = 1
====
